---- MODULE Spec2Model ----
(***************************************************************************)
(* Protocol engine of niimprint (printer.py): the receive buffer and frame *)
(* extraction (_recv), the request/response exchange (_transceive), the    *)
(* command methods and the print session (print_image), together with the  *)
(* device and transport they talk to.                                      *)
(*                                                                         *)
(* Bytes are integers 0..255.  A packet is a record [type, data].  An      *)
(* optional packet (Python's None or a packet) is a sequence of length 0   *)
(* or 1.                                                                   *)
(*                                                                         *)
(* Specifications: Spec (a print session), SpecCommand (start_print alone, *)
(* several frames on the line), SpecClient (each command method alone),    *)
(* SpecHistory (start_print alone, with the history of _recv), SpecEncode  *)
(* (the raster encoder alone), SpecCooperative (a print session with a     *)
(* device that answers every request, under weak fairness).                *)
(***************************************************************************)
EXTENDS Integers, Sequences, FiniteSets, TLC

(***************************************************************************)
(* Bounds of the model.                                                    *)
(***************************************************************************)
\* frames the device may have in flight (written, not yet read) at a time
MaxInFlight == 2
\* image heights 1..MaxHeight
MaxHeight == 2
\* cap on the GET_PRINT_STATUS requests of one session (the loop is unbounded)
MaxPolls == 2
\* cap on the END_PRINT requests of one session (the loop is unbounded)
MaxEndPrints == 2
\* width of the session's images, in pixels
ImageWidth == 9

(***************************************************************************)
(* Program constants.                                                      *)
(***************************************************************************)
SET_LABEL_TYPE == 35
SET_LABEL_DENSITY == 33
START_PRINT == 1
END_PRINT == 243
START_PAGE_PRINT == 3
END_PAGE_PRINT == 227
SET_DIMENSION == 19
GET_PRINT_STATUS == 163
HEARTBEAT == 220
GET_INFO == 64
GET_RFID == 26
ALLOW_PRINT_CLEAR == 32
SET_QUANTITY == 21
\* the values of InfoEnum
DENSITY == 1
PRINTSPEED == 2
LABELTYPE == 3
LANGUAGETYPE == 6
AUTOSHUTDOWNTIME == 7
DEVICETYPE == 8
SOFTVERSION == 9
BATTERY == 10
DEVICESERIAL == 11
HARDVERSION == 12
UNKNOWN_1 == 13
UNKNOWN_2 == 15
InfoEnum == {DENSITY, PRINTSPEED, LABELTYPE, LANGUAGETYPE, AUTOSHUTDOWNTIME,
             DEVICETYPE, SOFTVERSION, BATTERY, DEVICESERIAL, HARDVERSION,
             UNKNOWN_1, UNKNOWN_2}
\* the values of RequestCodeEnum
RequestCodeEnum == {GET_INFO, GET_RFID, HEARTBEAT, SET_LABEL_TYPE,
                    SET_LABEL_DENSITY, START_PRINT, END_PRINT, START_PAGE_PRINT,
                    END_PAGE_PRINT, ALLOW_PRINT_CLEAR, SET_DIMENSION,
                    SET_QUANTITY, GET_PRINT_STATUS}
\* type of a raster row packet
ROW_TYPE == 133
\* frame types on which _transceive raises
ERR_INVALID == 219
ERR_UNSUPPORTED == 0
\* passes of the polling loop of _transceive
Attempts == 6
\* length asked of transport.read
ReadLength == 1024
\* _recv: the loop runs while the buffer holds more than this many bytes
MinParse == 4
\* _recv: bytes of a frame besides its payload
FrameOverhead == 7
\* payload length struct.unpack(">BBBBBBBBBB") accepts
StatusLength == 10

(***************************************************************************)
(* Packet codec (packet.py, not part of the sources at hand): header       *)
(* markers, type, length byte, payload, checksum, trailer markers.         *)
(***************************************************************************)
HeaderMark == 85
TrailerMark == 170

RECURSIVE Xor(_, _)
Xor(a, b) ==
    IF a = 0 THEN b
    ELSE IF b = 0 THEN a
    ELSE (((a % 2) + (b % 2)) % 2) + (2 * Xor(a \div 2, b \div 2))

RECURSIVE XorAll(_)
XorAll(s) == IF s = <<>> THEN 0 ELSE Xor(Head(s), XorAll(Tail(s)))

Checksum(type, data) == Xor(Xor(type, Len(data)), XorAll(data))

NiimbotPacket(type, data) == [type |-> type, data |-> data]

\* packet.to_bytes()
to_bytes(p) ==
    <<HeaderMark, HeaderMark, p.type, Len(p.data)>> \o p.data
        \o <<Checksum(p.type, p.data), TrailerMark, TrailerMark>>

\* NiimbotPacket.from_bytes(b): the packet, or a failed validation
from_bytes(b) ==
    LET n == Len(b)
        valid == /\ n >= FrameOverhead
                 /\ b[1] = HeaderMark /\ b[2] = HeaderMark
                 /\ b[n - 1] = TrailerMark /\ b[n] = TrailerMark
                 /\ b[4] = n - FrameOverhead
                 /\ b[n - 2] = Checksum(b[3], SubSeq(b, 5, n - 3))
    IN  IF valid
        THEN [ok |-> TRUE, packet |-> NiimbotPacket(b[3], SubSeq(b, 5, n - 3))]
        ELSE [ok |-> FALSE, packet |-> NiimbotPacket(0, <<>>)]

(***************************************************************************)
(* Helpers on sequences.                                                   *)
(***************************************************************************)
Min(a, b) == IF a < b THEN a ELSE b

RECURSIVE Flatten(_)
Flatten(ss) == IF ss = <<>> THEN <<>> ELSE Head(ss) \o Flatten(Tail(ss))

\* the frames in flight once their first k bytes have been read
RECURSIVE DropBytes(_, _)
DropBytes(ss, k) ==
    IF ss = <<>> THEN <<>>
    ELSE IF k >= Len(Head(ss)) THEN DropBytes(Tail(ss), k - Len(Head(ss)))
    ELSE IF k = 0 THEN ss
    ELSE <<SubSeq(Head(ss), k + 1, Len(Head(ss)))>> \o Tail(ss)

Types(packets) == [i \in 1..Len(packets) |-> packets[i].type]

CountType(ws, t) == Cardinality({i \in 1..Len(ws) : ws[i].type = t})

(***************************************************************************)
(* Images and the raster encoder.                                          *)
(***************************************************************************)
\* a 1-bit image: height, width and the value (0 black, 255 white) of each
\* pixel <<x, y>>
Pixels(h, w) == (0..(w - 1)) \X (0..(h - 1))

\* the images handed to print_image: a checkerboard of each height
Images ==
    {[height |-> h, width |-> ImageWidth,
      px |-> [p \in Pixels(h, ImageWidth) |->
                 IF (p[1] + p[2]) % 2 = 0 THEN 0 ELSE 255]] : h \in 1..MaxHeight}

\* the images handed to _encode_image alone: every width up to ImageWidth,
\* every choice of inked (black) columns, the same on each row
RowImages ==
    UNION {{[height |-> h, width |-> w,
             px |-> [p \in Pixels(h, w) |-> IF p[1] \in inked THEN 0 ELSE 255]] :
               inked \in SUBSET (0..(w - 1))} :
           h \in 1..MaxHeight, w \in 1..ImageWidth}

\* densities handed to print_image
Densities == {0, 1, 5, 6}

RECURSIVE Pow(_, _)
Pow(b, e) == IF e = 0 THEN 1 ELSE b * Pow(b, e - 1)

\* ImageOps.invert(image.convert("L")).convert("1"), then "0" if pix == 0 else "1"
InkBit(img, x, y) ==
    LET inverted == 255 - img.px[<<x, y>>]
        onebit == IF inverted >= 128 THEN 255 ELSE 0
    IN  IF onebit = 0 THEN 0 ELSE 1

\* int(line_data, 2) over the bits of columns x..width-1
RECURSIVE LineInt(_, _, _)
LineInt(img, x, y) ==
    IF x >= img.width THEN 0
    ELSE (InkBit(img, x, y) * Pow(2, img.width - 1 - x)) + LineInt(img, x + 1, y)

\* v.to_bytes(n, "big")
IntToBytes(v, n) == [i \in 1..n |-> (v \div Pow(256, n - i)) % 256]

\* math.ceil(width / 8)
CeilDiv8(w) == (w + 7) \div 8

\* the encoder with a slip: the rows are numbered from 1
encode_image_FromOne(img, y) ==
    LET line_data == IntToBytes(LineInt(img, 0, y), CeilDiv8(img.width))
        header == <<(y + 1) \div 256, (y + 1) % 256, 0, 0, 0, 1>>
    IN  NiimbotPacket(ROW_TYPE, header \o line_data)

\* the packet _encode_image yields for row y
encode_image(img, y) ==
    LET line_data == IntToBytes(LineInt(img, 0, y), CeilDiv8(img.width))
        header == <<y \div 256, y % 256, 0, 0, 0, 1>>
    IN  NiimbotPacket(ROW_TYPE, header \o line_data)

(***************************************************************************)
(* _recv: the extraction loop over the receive buffer.  status is "ok"     *)
(* when the loop ends, "spin" when it can never end (more than MinParse    *)
(* bytes that do not hold the whole frame: the loop body changes nothing), *)
(* "AssertionError" when from_bytes rejects the frame.                     *)
(***************************************************************************)
\* the loop with a slip: after a frame is extracted the buffer is emptied
RECURSIVE recv_ClearsBuffer(_, _)
recv_ClearsBuffer(buf, packets) ==
    IF Len(buf) > MinParse
    THEN LET pkt_len == buf[4] + FrameOverhead
         IN  IF Len(buf) >= pkt_len
             THEN LET d == from_bytes(SubSeq(buf, 1, pkt_len))
                  IN  IF d.ok
                      THEN recv_ClearsBuffer(<<>>, Append(packets, d.packet))
                      ELSE [status |-> "AssertionError", packets |-> packets,
                            buf |-> buf]
             ELSE [status |-> "spin", packets |-> packets, buf |-> buf]
    ELSE [status |-> "ok", packets |-> packets, buf |-> buf]

RECURSIVE recv(_, _)
recv(buf, packets) ==
    IF Len(buf) > MinParse
    THEN LET pkt_len == buf[4] + FrameOverhead
         IN  IF Len(buf) >= pkt_len
             THEN LET d == from_bytes(SubSeq(buf, 1, pkt_len))
                  IN  IF d.ok
                      THEN recv(SubSeq(buf, pkt_len + 1, Len(buf)),
                                Append(packets, d.packet))
                      ELSE [status |-> "AssertionError", packets |-> packets,
                            buf |-> buf]
             ELSE [status |-> "spin", packets |-> packets, buf |-> buf]
    ELSE [status |-> "ok", packets |-> packets, buf |-> buf]

(***************************************************************************)
(* _transceive: the scan of the packets of one pass.  raised is the        *)
(* exception raised ("" for none), resp the response held after the scan.  *)
(***************************************************************************)
\* the scan with a slip: a frame of another type clears the response held
RECURSIVE ScanPacketsReset(_, _, _)
ScanPacketsReset(packets, respcode, resp) ==
    IF packets = <<>> THEN [raised |-> "", resp |-> resp]
    ELSE LET packet == Head(packets)
         IN  IF packet.type = ERR_INVALID
             THEN [raised |-> "ValueError", resp |-> resp]
             ELSE IF packet.type = ERR_UNSUPPORTED
             THEN [raised |-> "NotImplementedError", resp |-> resp]
             ELSE IF packet.type = respcode
             THEN ScanPacketsReset(Tail(packets), respcode, <<packet>>)
             ELSE ScanPacketsReset(Tail(packets), respcode, <<>>)

\* the scan with a slip: the first frame with the response code ends the scan
RECURSIVE ScanPacketsFirstMatch(_, _, _)
ScanPacketsFirstMatch(packets, respcode, resp) ==
    IF packets = <<>> THEN [raised |-> "", resp |-> resp]
    ELSE LET packet == Head(packets)
         IN  IF packet.type = ERR_INVALID
             THEN [raised |-> "ValueError", resp |-> resp]
             ELSE IF packet.type = ERR_UNSUPPORTED
             THEN [raised |-> "NotImplementedError", resp |-> resp]
             ELSE IF packet.type = respcode
             THEN [raised |-> "", resp |-> <<packet>>]
             ELSE ScanPacketsFirstMatch(Tail(packets), respcode, resp)

\* the scan with a slip: a response held is not replaced by a later one
RECURSIVE ScanPacketsKeepFirst(_, _, _)
ScanPacketsKeepFirst(packets, respcode, resp) ==
    IF packets = <<>> THEN [raised |-> "", resp |-> resp]
    ELSE LET packet == Head(packets)
         IN  IF packet.type = ERR_INVALID
             THEN [raised |-> "ValueError", resp |-> resp]
             ELSE IF packet.type = ERR_UNSUPPORTED
             THEN [raised |-> "NotImplementedError", resp |-> resp]
             ELSE IF packet.type = respcode /\ resp = <<>>
             THEN ScanPacketsKeepFirst(Tail(packets), respcode, <<packet>>)
             ELSE ScanPacketsKeepFirst(Tail(packets), respcode, resp)

RECURSIVE ScanPackets(_, _, _)
ScanPackets(packets, respcode, resp) ==
    IF packets = <<>> THEN [raised |-> "", resp |-> resp]
    ELSE LET packet == Head(packets)
         IN  IF packet.type = ERR_INVALID
             THEN [raised |-> "ValueError", resp |-> resp]
             ELSE IF packet.type = ERR_UNSUPPORTED
             THEN [raised |-> "NotImplementedError", resp |-> resp]
             ELSE IF packet.type = respcode
             THEN ScanPackets(Tail(packets), respcode, <<packet>>)
             ELSE ScanPackets(Tail(packets), respcode, resp)

(***************************************************************************)
(* The command methods: the request each sends and how each reads the      *)
(* reply.                                                                  *)
(***************************************************************************)
Steps == {"density", "labeltype", "startprint", "startpage", "dimension",
          "endpage", "status", "endprint"}

\* struct.pack(">HH", w, h)
PackHH(w, h) == <<w \div 256, w % 256, h \div 256, h % 256>>

\* the arguments each command method gives _transceive
Request(step, d, img) ==
    CASE step = "density" ->
            [reqcode |-> SET_LABEL_DENSITY, data |-> <<d>>, respoffset |-> 16]
      [] step = "labeltype" ->
            [reqcode |-> SET_LABEL_TYPE, data |-> <<1>>, respoffset |-> 16]
      [] step = "startprint" ->
            [reqcode |-> START_PRINT, data |-> <<1>>, respoffset |-> 1]
      [] step = "startpage" ->
            [reqcode |-> START_PAGE_PRINT, data |-> <<1>>, respoffset |-> 1]
      [] step = "dimension" ->
            [reqcode |-> SET_DIMENSION, data |-> PackHH(img.height, img.width),
             respoffset |-> 1]
      [] step = "endpage" ->
            [reqcode |-> END_PAGE_PRINT, data |-> <<1>>, respoffset |-> 1]
      [] step = "status" ->
            [reqcode |-> GET_PRINT_STATUS, data |-> <<1>>, respoffset |-> 16]
      [] step = "endprint" ->
            [reqcode |-> END_PRINT, data |-> <<1>>, respoffset |-> 1]

\* respcode = respoffset + reqcode
RespCode(step) ==
    LET r == Request(step, 1, [height |-> 1, width |-> 1])
    IN  r.respoffset + r.reqcode

\* the density check with a slip: 0 is let through
density_assert_FromZero(n) == 0 <= n /\ n <= 5

\* set_label_density: "assert 1 <= n <= 5", before _transceive is called
density_assert(n) == 1 <= n /\ n <= 5

\* the reply flag with a slip: no reply reads as a rejection
ReplyFlagNoneFalse(packet) ==
    IF packet = <<>> THEN [raised |-> "", flag |-> FALSE]
    ELSE IF packet[1].data = <<>> THEN [raised |-> "IndexError", flag |-> FALSE]
    ELSE [raised |-> "", flag |-> packet[1].data[1] # 0]

\* bool(packet.data[0]) on what _transceive returned
ReplyFlag(packet) ==
    IF packet = <<>> THEN [raised |-> "AttributeError", flag |-> FALSE]
    ELSE IF packet[1].data = <<>> THEN [raised |-> "IndexError", flag |-> FALSE]
    ELSE [raised |-> "", flag |-> packet[1].data[1] # 0]

\* the status decoder with a slip: two reserved bytes lead the payload
get_print_status_TwoReserved(packet) ==
    IF packet = <<>>
    THEN [raised |-> "AttributeError", idle |-> FALSE, status |-> <<>>]
    ELSE IF Len(packet[1].data) # StatusLength
    THEN [raised |-> "struct.error", idle |-> FALSE, status |-> <<>>]
    ELSE LET data == packet[1].data
             idle == data[3]
             error == data[8]
         IN  IF 0 <= idle /\ idle <= 1
             THEN [raised |-> "", idle |-> idle # 0,
                   status |-> <<[unknown0 |-> data[1], idle |-> idle # 0,
                                 progress1 |-> data[4], progress2 |-> data[5],
                                 unknown1 |-> data[6], unknown2 |-> data[7],
                                 error |-> error # 0, error_code |-> error,
                                 open_paper_compartment |-> error = 1,
                                 unknown3 |-> data[2], unknown4 |-> data[9],
                                 unknown5 |-> data[10]]>>]
             ELSE [raised |-> "AssertionError", idle |-> FALSE, status |-> <<>>]

\* the status decoder with a slip: the idle byte is not asserted
get_print_status_NoAssert(packet) ==
    IF packet = <<>>
    THEN [raised |-> "AttributeError", idle |-> FALSE, status |-> <<>>]
    ELSE IF Len(packet[1].data) # StatusLength
    THEN [raised |-> "struct.error", idle |-> FALSE, status |-> <<>>]
    ELSE LET data == packet[1].data
             idle == data[2]
             error == data[7]
         IN  [raised |-> "", idle |-> idle # 0,
              status |-> <<[unknown0 |-> data[1], idle |-> idle # 0,
                            progress1 |-> data[3], progress2 |-> data[4],
                            unknown1 |-> data[5], unknown2 |-> data[6],
                            error |-> error # 0, error_code |-> error,
                            open_paper_compartment |-> error = 1,
                            unknown3 |-> data[8], unknown4 |-> data[9],
                            unknown5 |-> data[10]]>>]

\* get_print_status on what _transceive returned: the exception raised, the
\* idle flag, and the dictionary returned (status, a sequence of length 0
\* or 1).  struct.unpack(">BBBBBBBBBB") names the ten bytes in order.
get_print_status(packet) ==
    IF packet = <<>>
    THEN [raised |-> "AttributeError", idle |-> FALSE, status |-> <<>>]
    ELSE IF Len(packet[1].data) # StatusLength
    THEN [raised |-> "struct.error", idle |-> FALSE, status |-> <<>>]
    ELSE LET data == packet[1].data
             idle == data[2]
             error == data[7]
         IN  IF 0 <= idle /\ idle <= 1
             THEN [raised |-> "", idle |-> idle # 0,
                   status |-> <<[unknown0 |-> data[1], idle |-> idle # 0,
                                 progress1 |-> data[3], progress2 |-> data[4],
                                 unknown1 |-> data[5], unknown2 |-> data[6],
                                 error |-> error # 0, error_code |-> error,
                                 open_paper_compartment |-> error = 1,
                                 unknown3 |-> data[8], unknown4 |-> data[9],
                                 unknown5 |-> data[10]]>>]
             ELSE [raised |-> "AssertionError", idle |-> FALSE, status |-> <<>>]

(***************************************************************************)
(* The command methods print_image does not call.                          *)
(***************************************************************************)
OtherSteps == {"getinfo", "getrfid", "heartbeat", "allowprintclear",
               "setquantity"}

ClientSteps == Steps \cup OtherSteps

\* struct.pack(">H", n)
PackH(n) == <<n \div 256, n % 256>>

\* get_info with a slip: the key is the response code itself
get_info_request_KeyIsCode(key) ==
    [reqcode |-> GET_INFO, data |-> <<key>>, respoffset |-> key - GET_INFO]

\* get_info(key): the arguments it gives _transceive
get_info_request(key) ==
    [reqcode |-> GET_INFO, data |-> <<key>>, respoffset |-> key]

\* the other requests with a slip: allow_print_clear leaves the offset out
OtherRequestDefaultOffset(step, k) ==
    CASE step = "getinfo" -> get_info_request(k)
      [] step = "getrfid" ->
            [reqcode |-> GET_RFID, data |-> <<1>>, respoffset |-> 1]
      [] step = "heartbeat" ->
            [reqcode |-> HEARTBEAT, data |-> <<1>>, respoffset |-> 1]
      [] step = "allowprintclear" ->
            [reqcode |-> ALLOW_PRINT_CLEAR, data |-> <<1>>, respoffset |-> 1]
      [] step = "setquantity" ->
            [reqcode |-> SET_QUANTITY, data |-> PackH(k), respoffset |-> 1]

\* the arguments the other command methods give _transceive; k is the
\* argument of the method (the info key, the quantity)
OtherRequest(step, k) ==
    CASE step = "getinfo" -> get_info_request(k)
      [] step = "getrfid" ->
            [reqcode |-> GET_RFID, data |-> <<1>>, respoffset |-> 1]
      [] step = "heartbeat" ->
            [reqcode |-> HEARTBEAT, data |-> <<1>>, respoffset |-> 1]
      [] step = "allowprintclear" ->
            [reqcode |-> ALLOW_PRINT_CLEAR, data |-> <<1>>, respoffset |-> 16]
      [] step = "setquantity" ->
            [reqcode |-> SET_QUANTITY, data |-> PackH(k), respoffset |-> 1]

\* the arguments any command method gives _transceive
ClientRequest(step, d, img, k) ==
    IF step \in Steps THEN Request(step, d, img) ELSE OtherRequest(step, k)

\* _packet_to_int: int.from_bytes(x.data, "big")
RECURSIVE packet_to_int(_)
packet_to_int(data) ==
    IF data = <<>> THEN 0
    ELSE (256 * packet_to_int(SubSeq(data, 1, Len(data) - 1))) + data[Len(data)]

\* bytes.hex(): two hexadecimal digits (as numbers 0..15) for each byte
Hex(data) ==
    [i \in 1..(2 * Len(data)) |->
        IF i % 2 = 1 THEN data[(i + 1) \div 2] \div 16 ELSE data[i \div 2] % 16]

\* get_info on what _transceive returned: a quotient num / den, the hex
\* digits, or None; no exception is raised
get_info(packet, key) ==
    IF packet = <<>> THEN [raised |-> "", value |-> [none |-> TRUE]]
    ELSE LET data == packet[1].data
         IN  CASE key = DEVICESERIAL ->
                    [raised |-> "", value |-> [hex |-> Hex(data)]]
               [] key = SOFTVERSION ->
                    [raised |-> "", value |-> [num |-> packet_to_int(data), den |-> 100]]
               [] key = HARDVERSION ->
                    [raised |-> "", value |-> [num |-> packet_to_int(data), den |-> 100]]
               [] OTHER ->
                    [raised |-> "", value |-> [num |-> packet_to_int(data), den |-> 1]]

\* bytes.decode() succeeds on bytes below 128, which stand for themselves
Decodable(b) == \A i \in 1..Len(b) : b[i] < 128

\* Python's data[a:b] (0-based, b exclusive, cut at the end of data)
Slice(data, a, b) == SubSeq(data, a + 1, Min(b, Len(data)))

\* get_rfid on what _transceive returned
get_rfid(packet) ==
    IF packet = <<>> THEN [raised |-> "AttributeError", value |-> [none |-> TRUE]]
    ELSE LET data == packet[1].data
             n == Len(data)
             Fail(exc) == [raised |-> exc, value |-> [none |-> TRUE]]
         IN  IF n = 0 THEN Fail("IndexError")
             ELSE IF data[1] = 0 THEN [raised |-> "", value |-> [none |-> TRUE]]
             ELSE IF n <= 8 THEN Fail("IndexError")
             ELSE LET barcode_len == data[9]
                      barcode == Slice(data, 9, 9 + barcode_len)
                      idx == 9 + barcode_len
                  IN  IF ~Decodable(barcode) THEN Fail("UnicodeDecodeError")
                      ELSE IF n <= idx THEN Fail("IndexError")
                      ELSE LET serial_len == data[idx + 1]
                               serial == Slice(data, idx + 1, idx + 1 + serial_len)
                               rest == Slice(data, idx + 1 + serial_len, n)
                           IN  IF ~Decodable(serial) THEN Fail("UnicodeDecodeError")
                               ELSE IF Len(rest) # 5 THEN Fail("struct.error")
                               ELSE [raised |-> "",
                                     value |-> [uuid |-> Hex(Slice(data, 0, 8)),
                                                barcode |-> barcode,
                                                serial |-> serial,
                                                used_len |-> (256 * rest[3]) + rest[4],
                                                total_len |-> (256 * rest[1]) + rest[2],
                                                type |-> rest[5]]]

\* heartbeat on what _transceive returned; a field left at None is -1
heartbeat(packet) ==
    IF packet = <<>>
    THEN [raised |-> "AttributeError", value |-> [none |-> TRUE]]
    ELSE LET data == packet[1].data
             n == Len(data)
             Dict(c, p, pa, r) == [closingstate |-> c, powerlevel |-> p,
                                   paperstate |-> pa, rfidreadstate |-> r]
         IN  [raised |-> "",
              value |-> CASE n = 20 -> Dict(-1, -1, data[19], data[20])
                          [] n = 13 -> Dict(data[10], data[11], data[12], data[13])
                          [] n = 19 -> Dict(data[16], data[17], data[18], data[19])
                          [] n = 10 -> Dict(data[9], data[10], -1, data[9])
                          [] n = 9 -> Dict(data[9], -1, -1, -1)
                          [] OTHER -> Dict(-1, -1, -1, -1)]

\* what a command method does with the packet _transceive returned: the
\* exception it raises ("" for none) and the value it returns
method_return(step, packet, k) ==
    CASE step = "status" ->
            LET st == get_print_status(packet)
            IN  [raised |-> st.raised,
                 value |-> IF st.status = <<>> THEN [none |-> TRUE]
                           ELSE st.status[1]]
      [] step = "getinfo" -> get_info(packet, k)
      [] step = "getrfid" -> get_rfid(packet)
      [] step = "heartbeat" -> heartbeat(packet)
      [] OTHER ->
            LET fl == ReplyFlag(packet)
            IN  [raised |-> fl.raised, value |-> fl.flag]

\* the step order with a slip: the page is started before the job
NextStepSwapped(step) ==
    CASE step = "density" -> "labeltype"
      [] step = "labeltype" -> "startpage"
      [] step = "startpage" -> "startprint"
      [] step = "startprint" -> "dimension"
      [] step = "dimension" -> "rows"
      [] step = "rows" -> "endpage"
      [] step = "endpage" -> "status"
      [] step = "status" -> "endprint"
      [] step = "endprint" -> "done"

\* print_image: the step after a command that returned
NextStep(step) ==
    CASE step = "density" -> "labeltype"
      [] step = "labeltype" -> "startprint"
      [] step = "startprint" -> "startpage"
      [] step = "startpage" -> "dimension"
      [] step = "dimension" -> "rows"
      [] step = "rows" -> "endpage"
      [] step = "endpage" -> "status"
      [] step = "status" -> "endprint"
      [] step = "endprint" -> "done"

\* print_image: "while True: ... if printer_status["idle"]: break"
StatusLoop(idle) == IF idle THEN "endprint" ELSE "status"

\* the end-print loop with a slip: end_print is called once
EndPrintLoopOnce(flag) == "done"

\* print_image: "while not self.end_print(): time.sleep(0.1)"
EndPrintLoop(flag) == IF flag THEN "done" ELSE "endprint"

\* _transceive: the polling loop ends after a pass that left a response, or
\* after the last pass
LoopEnds(response, passes) == response # <<>> \/ passes = Attempts

(***************************************************************************)
(* The device: the frames it may put on the line while a command waits.    *)
(***************************************************************************)
StatusPayload(idle) == <<0, idle, 0, 0, 0, 0, 0, 0, 0, 0>>

\* a frame whose checksum byte is wrong
Corrupt(bytes) ==
    [i \in 1..Len(bytes) |->
        IF i = Len(bytes) - 2 THEN (bytes[i] + 1) % 256 ELSE bytes[i]]

\* the replies to a command: accepted or rejected; idle, busy, or an idle
\* byte that is no flag
ReplyFrames ==
    [step \in Steps |->
        IF step = "status"
        THEN {to_bytes(NiimbotPacket(RespCode(step), StatusPayload(i))) :
                 i \in {0, 1, 2}}
        ELSE {to_bytes(NiimbotPacket(RespCode(step), <<b>>)) : b \in {0, 1}}]

\* frames that are no reply: of another command, the two error types, and a
\* reply damaged on the line
NoiseFrames ==
    [step \in Steps |->
        {to_bytes(NiimbotPacket(HEARTBEAT + 1, <<1>>)),
         to_bytes(NiimbotPacket(ERR_INVALID, <<>>)),
         to_bytes(NiimbotPacket(ERR_UNSUPPORTED, <<>>)),
         Corrupt(to_bytes(NiimbotPacket(RespCode(step), <<1>>)))}]

\* the frames sent while the history of _recv is kept: a reply, a frame of
\* another command, a damaged reply
TracedFrames ==
    [step \in Steps |->
        {to_bytes(NiimbotPacket(RespCode(step), <<1>>)),
         to_bytes(NiimbotPacket(HEARTBEAT + 1, <<1>>)),
         Corrupt(to_bytes(NiimbotPacket(RespCode(step), <<1>>)))}]

\* the commands called on their own
Commands == {"startprint"}

\* respcode = respoffset + reqcode, for any command method
ClientRespCode(step, k) ==
    LET r == ClientRequest(step, 1, [height |-> 1, width |-> 1], k)
    IN  r.respoffset + r.reqcode

\* status payloads the device may send: busy with progress, idle, an idle
\* byte that is no flag, an error code, every byte set, one byte short
StatusPayloads ==
    {<<0, 0, 1, 5, 10, 0, 0, 0, 0, 0>>,
     <<0, 1, 0, 0, 0, 0, 0, 0, 0, 0>>,
     <<0, 2, 0, 0, 0, 0, 0, 0, 0, 0>>,
     <<0, 0, 0, 0, 0, 0, 1, 0, 0, 0>>,
     <<11, 1, 12, 13, 14, 15, 16, 17, 18, 19>>,
     <<0, 1, 0, 0, 0, 0, 0, 0, 0>>}

\* a payload of n bytes 1, 2, ..., n
Counting(n) == [i \in 1..n |-> i]

\* a tag read: uuid, barcode "A", serial "BC", total 10, used 3, type 2
RfidPayload == <<1, 2, 3, 4, 5, 6, 7, 8>> \o <<1, 65>> \o <<2, 66, 67>>
                   \o <<0, 10, 0, 3, 2>>

\* payloads of the replies to a command method called alone
AnswerPayloads(step) ==
    CASE step = "status" -> StatusPayloads
      [] step = "getinfo" -> {<<3>>, <<1, 44>>}
      [] step = "getrfid" -> {<<0>>, <<1>>, RfidPayload}
      [] step = "heartbeat" -> {Counting(n) : n \in {1, 9, 10, 13, 19, 20}}
      [] OTHER -> {<<0>>, <<1>>, <<>>}

\* the frames the device may send to a command method called alone: the
\* replies, and for get_info a frame whose type is the key
AnswerFrames(step, k) ==
    {to_bytes(NiimbotPacket(ClientRespCode(step, k), data)) :
        data \in AnswerPayloads(step)}
    \cup (IF step = "getinfo" THEN {to_bytes(NiimbotPacket(k, <<3>>))} ELSE {})

\* the calls of command methods on their own: <<method, argument>>
Calls ==
    {<<"getinfo", k>> : k \in InfoEnum}
    \cup {<<"density", d>> : d \in Densities}
    \cup {<<c, 1>> : c \in ClientSteps \ {"getinfo", "density"}}

(***************************************************************************)
(* State.                                                                  *)
(***************************************************************************)
VARIABLES
    caller,     \* "none", "print_image", or "command" (a command method called alone)
    pc,         \* the command in progress, or "init", "rows", "done"
    phase,      \* of the command: "send", "recv" (polling), "ret" (returned)
    outcome,    \* of the call: "running", "returned", "raised", "hung"
    raised,     \* <<>> or <<exception, function that raised it>>
    density,    \* argument of print_image
    image,      \* argument of print_image
    y,          \* rows written so far
    packetbuf,  \* self._packetbuf
    wire,       \* frames written by the device and not yet read
    written,    \* packets given to transport.write, in order
    attempt,    \* passes of the polling loop done by the current _transceive
    resp,       \* what the current _transceive holds or returned
    lastPass,   \* packets the latest _recv of the current _transceive returned
    dimReply,   \* a SET_DIMENSION reply was returned to set_dimension
    idleSeen,   \* a status reply with idle byte 1 was returned to get_print_status
    stepFailed, \* print_image got a reply with first payload byte 0 to a step before the rows
    timeoutAt,  \* <<>> or <<step, Len(written)>> of a _transceive that returned None
    arg,        \* argument of a command called alone (info key, quantity)
    respcode,   \* respcode of the current _transceive
    result,     \* <<>> or <<value>>: what the command called alone returned,
                \* or printer_status of print_image
    traced,     \* the two logs below are kept
    readLog,    \* the bytes transport.read returned, in order
    extractLog  \* the packets _recv extracted, in order

vars == <<caller, pc, phase, outcome, raised, density, image, y, packetbuf, wire,
          written, attempt, resp, lastPass, dimReply, idleSeen, stepFailed,
          timeoutAt, arg, respcode, result, traced, readLog, extractLog>>

ghost == <<dimReply, idleSeen, stepFailed, timeoutAt>>

logs == <<traced, readLog, extractLog>>

\* the steps whose failure the session is to treat as fatal
FailFastSteps == {"density", "labeltype", "startprint", "startpage", "dimension"}

NoImage == [height |-> 0, width |-> 0, px |-> <<>>]

Init ==
    /\ caller = "none"
    /\ pc = "init"
    /\ phase = "send"
    /\ outcome = "running"
    /\ raised = <<>>
    /\ density = 0
    /\ image = NoImage
    /\ y = 0
    /\ packetbuf = <<>>
    /\ wire = <<>>
    /\ written = <<>>
    /\ attempt = 0
    /\ resp = <<>>
    /\ lastPass = <<>>
    /\ dimReply = FALSE
    /\ idleSeen = FALSE
    /\ stepFailed = FALSE
    /\ timeoutAt = <<>>
    /\ arg = 0
    /\ respcode = 0
    /\ result = <<>>
    /\ traced = FALSE
    /\ readLog = <<>>
    /\ extractLog = <<>>

(***************************************************************************)
(* print_image(image, density) is called: set_label_density asserts the    *)
(* density before anything is sent.                                        *)
(***************************************************************************)
print_image(img, d) ==
    /\ caller = "none"
    /\ caller' = "print_image"
    /\ density' = d
    /\ image' = img
    /\ IF density_assert(d)
       THEN /\ pc' = "density"
            /\ UNCHANGED <<outcome, raised>>
       ELSE /\ outcome' = "raised"
            /\ raised' = <<"AssertionError", "set_label_density">>
            /\ pc' = pc
    /\ UNCHANGED <<phase, y, packetbuf, wire, written, attempt, resp, lastPass,
                   ghost, arg, respcode, result, logs>>

(***************************************************************************)
(* A command method is called on its own (start_print(), ...).             *)
(***************************************************************************)
call_command(c) ==
    /\ caller = "none"
    /\ caller' = "command"
    /\ pc' = c
    /\ UNCHANGED <<phase, outcome, raised, density, image, y, packetbuf, wire,
                   written, attempt, resp, lastPass, ghost, arg, respcode, result,
                   logs>>

\* a command method is called on its own, and the bytes read and the packets
\* extracted from then on are logged
call_traced(c) ==
    /\ caller = "none"
    /\ caller' = "command"
    /\ pc' = c
    /\ traced' = TRUE
    /\ UNCHANGED <<phase, outcome, raised, density, image, y, packetbuf, wire,
                   written, attempt, resp, lastPass, ghost, arg, respcode, result,
                   readLog, extractLog>>

(***************************************************************************)
(* Any command method is called on its own: c(k).  set_label_density       *)
(* asserts its argument; set_dimension is given the sides of an image.     *)
(***************************************************************************)
call_method(c, k) ==
    /\ caller = "none"
    /\ caller' = "command"
    /\ arg' = k
    /\ density' = IF c = "density" THEN k ELSE density
    /\ image' = IF c = "dimension"
                THEN CHOOSE img \in Images : img.height = 1
                ELSE image
    /\ IF c = "density" /\ ~density_assert(k)
       THEN /\ outcome' = "raised"
            /\ raised' = <<"AssertionError", "set_label_density">>
            /\ pc' = pc
       ELSE /\ pc' = c
            /\ UNCHANGED <<outcome, raised>>
    /\ UNCHANGED <<phase, y, packetbuf, wire, written, attempt, resp, lastPass,
                   ghost, respcode, result, logs>>

(***************************************************************************)
(* _transceive, first half: build the packet and _send it.                 *)
(***************************************************************************)
send ==
    /\ outcome = "running"
    /\ pc \in ClientSteps
    /\ phase = "send"
    /\ pc = "status" => CountType(written, GET_PRINT_STATUS) < MaxPolls
    /\ pc = "endprint" => CountType(written, END_PRINT) < MaxEndPrints
    /\ LET r == ClientRequest(pc, density, image, arg)
       IN  /\ respcode' = r.respoffset + r.reqcode
           /\ written' = Append(written, NiimbotPacket(r.reqcode, r.data))
    /\ phase' = "recv"
    /\ attempt' = 0
    /\ resp' = <<>>
    /\ lastPass' = <<>>
    /\ UNCHANGED <<caller, pc, outcome, raised, density, image, y, packetbuf,
                   wire, ghost, arg, result, logs>>

(***************************************************************************)
(* print_image: "for pkt in self._encode_image(image): self._send(pkt)",   *)
(* one row per step.                                                       *)
(***************************************************************************)
send_row ==
    /\ outcome = "running"
    /\ pc = "rows"
    /\ IF y < image.height
       THEN /\ written' = Append(written, encode_image(image, y))
            /\ y' = y + 1
            /\ pc' = IF y + 1 = image.height THEN NextStep("rows") ELSE pc
       ELSE /\ pc' = NextStep("rows")
            /\ UNCHANGED <<written, y>>
    /\ UNCHANGED <<caller, phase, outcome, raised, density, image, packetbuf,
                   wire, attempt, resp, lastPass, ghost, arg, respcode, result,
                   logs>>

(***************************************************************************)
(* _encode_image(image) called alone: the generator is made, then yields   *)
(* one row packet per step until the rows are out.                         *)
(***************************************************************************)
encode_call(img) ==
    /\ caller = "none"
    /\ caller' = "encode"
    /\ pc' = "encode"
    /\ image' = img
    /\ UNCHANGED <<phase, outcome, raised, density, y, packetbuf, wire, written,
                   attempt, resp, lastPass, ghost, arg, respcode, result, logs>>

encode_next ==
    /\ caller = "encode"
    /\ outcome = "running"
    /\ pc = "encode"
    /\ IF y < image.height
       THEN /\ result' = <<encode_image(image, y)>>
            /\ y' = y + 1
            /\ UNCHANGED <<pc, outcome>>
       ELSE /\ pc' = "done"
            /\ outcome' = "returned"
            /\ UNCHANGED <<result, y>>
    /\ UNCHANGED <<caller, phase, raised, density, image, packetbuf, wire, written,
                   attempt, resp, lastPass, ghost, arg, respcode, logs>>

(***************************************************************************)
(* The device writes a frame while a command polls for its reply.          *)
(***************************************************************************)
DeviceEmit(f) ==
    /\ outcome = "running"
    /\ pc \in ClientSteps
    /\ phase = "recv"
    /\ Len(wire) < MaxInFlight
    /\ wire' = Append(wire, f)
    /\ UNCHANGED <<caller, pc, phase, outcome, raised, density, image, y,
                   packetbuf, written, attempt, resp, lastPass, ghost, arg,
                   respcode, result, logs>>

\* the device writes a frame when the line is empty
DeviceFrame ==
    /\ pc \in Steps
    /\ wire = <<>>
    /\ \E f \in ReplyFrames[pc] \cup NoiseFrames[pc] : DeviceEmit(f)

\* the device writes a frame behind those still on the line
DeviceBurst ==
    /\ pc \in Steps
    /\ \E f \in ReplyFrames[pc] \cup NoiseFrames[pc] : DeviceEmit(f)

\* the device writes one of the traced frames behind those still on the line
DeviceTraced ==
    /\ pc \in Steps
    /\ \E f \in TracedFrames[pc] : DeviceEmit(f)

\* the replies of a device that accepts every step of a session, reports
\* idle sooner or later and accepts END_PRINT sooner or later (at the latest
\* on the last poll and on the last END_PRINT the bounds allow)
CoopPayloads(step) ==
    CASE step = "status" ->
            {StatusPayload(i) :
                i \in IF CountType(written, GET_PRINT_STATUS) = MaxPolls
                      THEN {1} ELSE {0, 1}}
      [] step = "endprint" ->
            {<<b>> : b \in IF CountType(written, END_PRINT) = MaxEndPrints
                           THEN {1} ELSE {0, 1}}
      [] OTHER -> {<<1>>}

\* that device answers a request once, with a frame of the expected code
CoopAnswer ==
    /\ pc \in Steps
    /\ wire = <<>>
    /\ packetbuf = <<>>
    /\ \E data \in CoopPayloads(pc) :
          DeviceEmit(to_bytes(NiimbotPacket(RespCode(pc), data)))

\* the device answers a command method called alone
DeviceAnswer ==
    /\ pc \in ClientSteps
    /\ wire = <<>>
    /\ \E f \in AnswerFrames(pc, arg) : DeviceEmit(f)

(***************************************************************************)
(* _transceive, one pass of the polling loop: _recv reads k bytes, extends *)
(* the buffer and extracts frames; the packets are scanned; the loop ends  *)
(* or goes on.                                                             *)
(***************************************************************************)
recv_pass(k) ==
    /\ outcome = "running"
    /\ pc \in ClientSteps
    /\ phase = "recv"
    /\ LET chunk == SubSeq(Flatten(wire), 1, k)
           d == recv(packetbuf \o chunk, <<>>)
           s == ScanPackets(d.packets, respcode, resp)
           returned == d.status = "ok" /\ s.raised = "" /\ s.resp # <<>>
       IN  /\ packetbuf' = d.buf
           /\ wire' = DropBytes(wire, k)
           /\ readLog' = IF traced THEN readLog \o chunk ELSE readLog
           /\ extractLog' = IF traced THEN extractLog \o d.packets ELSE extractLog
           /\ CASE d.status = "spin" ->
                     /\ outcome' = "hung"
                     /\ UNCHANGED <<raised, phase, attempt, resp, lastPass, timeoutAt>>
                [] d.status = "AssertionError" ->
                     /\ outcome' = "raised"
                     /\ raised' = <<"AssertionError", "from_bytes">>
                     /\ UNCHANGED <<phase, attempt, resp, lastPass, timeoutAt>>
                [] d.status = "ok" /\ s.raised # "" ->
                     /\ outcome' = "raised"
                     /\ raised' = <<s.raised, "_transceive">>
                     /\ lastPass' = d.packets
                     /\ UNCHANGED <<phase, attempt, resp, timeoutAt>>
                [] d.status = "ok" /\ s.raised = "" ->
                     /\ attempt' = attempt + 1
                     /\ resp' = s.resp
                     /\ lastPass' = d.packets
                     /\ phase' = IF LoopEnds(s.resp, attempt + 1) THEN "ret" ELSE "recv"
                     /\ timeoutAt' = IF LoopEnds(s.resp, attempt + 1) /\ s.resp = <<>>
                                     THEN <<pc, Len(written)>> ELSE timeoutAt
                     /\ UNCHANGED <<outcome, raised>>
           /\ dimReply' = (dimReply \/ (returned /\ pc = "dimension"
                                          /\ s.resp[1].type = SET_DIMENSION + 1))
           /\ idleSeen' = (idleSeen \/ (returned /\ pc = "status"
                                          /\ s.resp[1].type = GET_PRINT_STATUS + 16
                                          /\ Len(s.resp[1].data) >= 2
                                          /\ s.resp[1].data[2] = 1))
    /\ UNCHANGED <<caller, pc, density, image, y, written, stepFailed, arg,
                   respcode, result, traced>>

(***************************************************************************)
(* The command method reads what _transceive returned; print_image goes on *)
(* to its next statement, a command called alone returns to its caller.    *)
(***************************************************************************)
command_return ==
    /\ outcome = "running"
    /\ pc \in ClientSteps
    /\ phase = "ret"
    /\ LET st == get_print_status(resp)
           fl == ReplyFlag(resp)
           ret == method_return(pc, resp, arg)
           exc == ret.raised
           next == CASE caller = "command" -> "done"
                     [] caller # "command" /\ pc = "status" -> StatusLoop(st.idle)
                     [] caller # "command" /\ pc = "endprint" -> EndPrintLoop(fl.flag)
                     [] OTHER -> NextStep(pc)
       IN  IF exc # ""
           THEN /\ outcome' = "raised"
                /\ raised' = <<exc, IF pc = "status" THEN "get_print_status" ELSE pc>>
                /\ UNCHANGED <<pc, phase, result>>
           ELSE /\ pc' = next
                /\ phase' = "send"
                /\ outcome' = IF next = "done" THEN "returned" ELSE "running"
                /\ result' = IF caller = "command" \/ pc = "status"
                              THEN <<ret.value>> ELSE result
                /\ UNCHANGED raised
    /\ stepFailed' = (stepFailed \/ (/\ caller = "print_image"
                                     /\ pc \in FailFastSteps
                                     /\ resp # <<>>
                                     /\ resp[1].data # <<>>
                                     /\ resp[1].data[1] = 0))
    /\ UNCHANGED <<caller, density, image, y, packetbuf, wire, written, attempt,
                   resp, lastPass, dimReply, idleSeen, timeoutAt, arg, respcode,
                   logs>>

Reads == 0..Min(ReadLength, Len(Flatten(wire)))

\* a pass whose read the transport cuts anywhere, as long as the whole reply
\* is delivered by the last pass
CoopRead(k) ==
    /\ \/ attempt + 1 < Attempts
       \/ (wire # <<>> /\ k = Len(Flatten(wire)))
    /\ recv_pass(k)

\* a print session; the device has one frame on the line at a time
Next ==
    \/ \E img \in Images, d \in Densities : print_image(img, d)
    \/ send
    \/ send_row
    \/ DeviceFrame
    \/ \E k \in Reads : recv_pass(k)
    \/ command_return

Spec == Init /\ [][Next]_vars

\* one command; the device has up to MaxInFlight frames on the line
NextCommand ==
    \/ \E c \in Commands : call_command(c)
    \/ send
    \/ DeviceBurst
    \/ \E k \in Reads : recv_pass(k)
    \/ command_return

SpecCommand == Init /\ [][NextCommand]_vars

\* any command method, called alone; the device has one frame on the line
\* at a time
NextClient ==
    \/ \E c \in Calls : call_method(c[1], c[2])
    \/ send
    \/ DeviceAnswer
    \/ \E k \in Reads : recv_pass(k)
    \/ command_return

SpecClient == Init /\ [][NextClient]_vars

\* one command, with the history of _recv; the device has up to MaxInFlight
\* frames on the line
NextHistory ==
    \/ \E c \in Commands : call_traced(c)
    \/ send
    \/ DeviceTraced
    \/ \E k \in Reads : recv_pass(k)
    \/ command_return

SpecHistory == Init /\ [][NextHistory]_vars

\* a print session with a device that answers every request; weak fairness
\* of the steps: the program runs on, the device and the transport deliver
NextCooperative ==
    \/ \E img \in Images, d \in {n \in Densities : density_assert(n)} :
          print_image(img, d)
    \/ send
    \/ send_row
    \/ CoopAnswer
    \/ \E k \in Reads : CoopRead(k)
    \/ command_return

SpecCooperative ==
    Init /\ [][NextCooperative]_vars /\ WF_vars(NextCooperative)

\* the raster encoder, called alone
NextEncode ==
    \/ \E img \in RowImages : encode_call(img)
    \/ encode_next

SpecEncode == Init /\ [][NextEncode]_vars

(***************************************************************************)
(* Properties.                                                             *)
(***************************************************************************)
Raised(exc, where) == outcome = "raised" /\ raised = <<exc, where>>

\* position of a request type in the order of a print session
Rank(t) ==
    CASE t = SET_LABEL_DENSITY -> 1
      [] t = SET_LABEL_TYPE -> 2
      [] t = START_PRINT -> 3
      [] t = START_PAGE_PRINT -> 4
      [] t = SET_DIMENSION -> 5
      [] t = ROW_TYPE -> 6
      [] t = END_PAGE_PRINT -> 7
      [] t = GET_PRINT_STATUS -> 8
      [] t = END_PRINT -> 9
      [] OTHER -> 0

\* the ranks that may repeat: rows, status polls, end-print
Repeatable == {6, 8, 9}

\* C1: the packets written by print_image come in the order density, label
\* type, start print, start page, dimension, rows, end page, status polls,
\* end prints: the first is the density request, each next one is the
\* successor of the one before or repeats it (rows, polls and end prints
\* only); no row is written before set_dimension got its reply, no END_PRINT
\* before a status reply with idle = 1 was returned; a session that returned
\* ended with an END_PRINT.
C1_CommandOrder ==
    /\ \A i \in 1..Len(written) :
          /\ Rank(written[i].type) >= 1
          /\ i = 1 => Rank(written[i].type) = 1
          /\ i > 1 =>
                \/ Rank(written[i].type) = Rank(written[i - 1].type) + 1
                \/ /\ Rank(written[i].type) = Rank(written[i - 1].type)
                   /\ Rank(written[i].type) \in Repeatable
    /\ CountType(written, ROW_TYPE) > 0 => dimReply
    /\ CountType(written, END_PRINT) > 0 => idleSeen
    /\ outcome = "returned" =>
          /\ written # <<>>
          /\ written[Len(written)].type = END_PRINT

\* C1, reached: a session that returned after two status polls and two
\* END_PRINT requests
C1_Witness ==
    /\ outcome = "returned"
    /\ CountType(written, GET_PRINT_STATUS) >= 2
    /\ CountType(written, END_PRINT) >= 2

\* C2: once a step before the rows got a reply with first payload byte 0,
\* print_image has failed, and no row packet is written after it.
C2_RejectedStepIsFatal ==
    stepFailed => outcome = "raised"

\* C3: every call of _recv returns: no call is left in its extraction loop,
\* whatever part of a frame the reads have delivered.
C3_DrainReturns ==
    outcome # "hung"

\* C4: every call of _transceive terminates: it is never stuck in a pass, it
\* does at most 6 passes, and it returns None only after the 6th.
C4_TransceiveTerminates ==
    /\ ~(phase = "recv" /\ outcome = "hung")
    /\ attempt <= Attempts
    /\ (phase = "ret" /\ resp = <<>>) => attempt = Attempts

\* C5: a _transceive of print_image before end-print that did its 6 passes
\* without a frame of the expected code returned None, and print_image fails
\* on it with nothing written since; no call does a 7th pass.
C5_TimeoutFails ==
    /\ phase = "recv" => attempt < Attempts
    /\ (phase = "ret" /\ outcome = "running" /\ resp = <<>>) =>
          /\ attempt = Attempts
          /\ timeoutAt = <<pc, Len(written)>>
    /\ (timeoutAt # <<>> /\ timeoutAt[1] # "endprint") =>
          /\ Len(written) = timeoutAt[2]
          /\ pc = timeoutAt[1]
          /\ \/ Raised("AttributeError", IF pc = "status" THEN "get_print_status" ELSE pc)
             \/ outcome = "running" /\ phase = "ret" /\ resp = <<>>

\* C5, reached: print_image failed on a set_dimension that timed out
C5_Witness ==
    /\ timeoutAt # <<>>
    /\ timeoutAt[1] = "dimension"
    /\ outcome = "raised"

ErrorTypes == {ERR_INVALID, ERR_UNSUPPORTED}

InPass(t) == \E i \in 1..Len(lastPass) : lastPass[i].type = t

\* C6: a pass whose packets hold a frame of the expected code and no error
\* frame ends the call, which returns a frame of that code taken from that
\* pass, whatever other frames came with it; a pass of other frames only
\* leaves the call polling (or, if it was the 6th, returning None).
C6_UnrelatedIgnored ==
    /\ (phase = "ret" /\ resp # <<>>) =>
          /\ resp[1].type = RespCode(pc)
          /\ \E i \in 1..Len(lastPass) : lastPass[i] = resp[1]
          /\ attempt \in 1..Attempts
    /\ (phase = "recv" /\ outcome # "raised") => ~InPass(RespCode(pc))
    /\ (phase = "ret" /\ resp = <<>>) => ~InPass(RespCode(pc))
    /\ (pc \in Steps /\ \A i \in 1..Len(lastPass) :
            lastPass[i].type \notin ErrorTypes \cup {RespCode(pc)}) =>
          /\ ~(outcome = "raised" /\ raised[2] = "_transceive")
          /\ phase = "ret" => (resp = <<>> /\ attempt = Attempts)

\* C6, reached: the second or a later pass returned another command's frame
\* followed by the reply, and the call returned the reply
C6_Witness ==
    /\ phase = "ret"
    /\ attempt >= 2
    /\ Len(lastPass) = 2
    /\ lastPass[1].type = HEARTBEAT + 1
    /\ resp = <<lastPass[2]>>

\* the exception of the first error frame of the latest pass ("" if none)
RECURSIVE FirstError(_)
FirstError(packets) ==
    IF packets = <<>> THEN ""
    ELSE IF Head(packets).type = ERR_INVALID THEN "ValueError"
    ELSE IF Head(packets).type = ERR_UNSUPPORTED THEN "NotImplementedError"
    ELSE FirstError(Tail(packets))

\* C7: a pass whose packets hold a frame of type 219 or 0 makes the call
\* raise ValueError or NotImplementedError (that of the first such frame),
\* in every pass and also behind a frame of the expected code: the call
\* returns no response then, and it raises these two only on such a frame.
C7_ErrorFrameAborts ==
    /\ FirstError(lastPass) # "" =>
          /\ Raised(FirstError(lastPass), "_transceive")
          /\ phase = "recv"
          /\ resp = <<>>
    /\ (outcome = "raised" /\ raised[2] = "_transceive") =>
          raised[1] = FirstError(lastPass)

\* C7, reached: the 6th pass returned the reply followed by a frame of type
\* 219, and the call raised ValueError
C7_Witness ==
    /\ Raised("ValueError", "_transceive")
    /\ attempt = Attempts - 1
    /\ Len(lastPass) = 2
    /\ lastPass[1].type = RespCode(pc)
    /\ lastPass[2].type = ERR_INVALID

\* C8: print_image does not fail on an END_PRINT that timed out.
C8_EndPrintTimeoutRetried ==
    (timeoutAt # <<>> /\ timeoutAt[1] = "endprint") => outcome # "raised"

RejectedReply == resp # <<>> /\ resp[1].data # <<>> /\ resp[1].data[1] = 0

\* C9, the states: print_image returned only on an END_PRINT reply with a
\* non-zero first byte, after a status reply with idle = 1; end_print raises
\* only on a missing reply or an empty payload, never on a rejection.
C9_States ==
    /\ outcome = "returned" =>
          /\ idleSeen
          /\ resp # <<>>
          /\ resp[1].type = END_PRINT + 1
          /\ resp[1].data[1] # 0
    /\ (outcome = "raised" /\ raised[2] = "endprint") =>
          (resp = <<>> \/ resp[1].data = <<>>)

\* C9, the steps: a rejected END_PRINT puts print_image back before the
\* END_PRINT request, and the only step from there writes it.
C9_Steps ==
    /\ (pc = "endprint" /\ phase = "ret" /\ outcome = "running" /\ RejectedReply) =>
          (pc' = "endprint" /\ phase' = "send" /\ outcome' = "running")
    /\ (pc = "endprint" /\ phase = "send" /\ outcome = "running") =>
          /\ written' = Append(written, NiimbotPacket(END_PRINT, <<1>>))
          /\ phase' = "recv"

\* C9: every rejected END_PRINT is followed by another END_PRINT request, and
\* print_image returns only after an accepted one; a rejection never fails
\* the session.
C9_EndPrintRetried == []C9_States /\ [][C9_Steps]_vars

\* C9, reached: a session that returned after a rejected and an accepted
\* END_PRINT
C9_Witness ==
    /\ outcome = "returned"
    /\ CountType(written, END_PRINT) >= 2
    /\ CountType(written, GET_PRINT_STATUS) = 1

\* C10: _recv raises nothing on a frame that fails validation.
C10_BadFrameSwallowed ==
    ~Raised("AssertionError", "from_bytes")

\* get_print_status() called alone has returned a dictionary
StatusReturned ==
    /\ caller = "command"
    /\ outcome = "returned"
    /\ written # <<>>
    /\ written[1].type = GET_PRINT_STATUS
    /\ resp # <<>>
    /\ result # <<>>

\* the status payload of the example: [0, 0, 1, 5, 10, 0, 0, 0, 0, 0]
ExamplePayload == <<0, 0, 1, 5, 10, 0, 0, 0, 0, 0>>

\* C11 as stated: decoding the payload [0,0,1,5,10,0,0,0,0,0] yields idle =
\* true, progress1 = 1, progress2 = 5 and error = false.
C11_ExampleIsIdle ==
    (StatusReturned /\ resp[1].data = ExamplePayload) =>
        /\ result[1].idle = TRUE
        /\ result[1].progress1 = 1
        /\ result[1].progress2 = 5
        /\ result[1].error = FALSE

\* C11, amended: the dictionary get_print_status returns names the ten
\* payload bytes in order: one reserved byte, the idle flag, two progress
\* counters, two reserved bytes, the error code and three reserved bytes; for
\* the payload [0,0,1,5,10,0,0,0,0,0] it holds idle = false, progress1 = 1,
\* progress2 = 5 and error = false.
C11_StatusLayout ==
    StatusReturned =>
        LET data == resp[1].data
            st == result[1]
        IN  /\ Len(data) = 10
            /\ st.unknown0 = data[1]
            /\ st.idle = (data[2] = 1)
            /\ st.progress1 = data[3]
            /\ st.progress2 = data[4]
            /\ st.unknown1 = data[5]
            /\ st.unknown2 = data[6]
            /\ st.error = (data[7] # 0)
            /\ st.error_code = data[7]
            /\ st.unknown3 = data[8]
            /\ st.unknown4 = data[9]
            /\ st.unknown5 = data[10]
            /\ data = ExamplePayload =>
                  /\ st.idle = FALSE
                  /\ st.progress1 = 1
                  /\ st.progress2 = 5
                  /\ st.error = FALSE

\* get_print_status() has decoded the payload of the example
C11_Witness ==
    /\ StatusReturned
    /\ resp[1].data = ExamplePayload
    /\ result[1].idle = FALSE
    /\ result[1].progress1 = 1

\* print_image holds the status reply that get_print_status has just decoded
StatusDecoded ==
    /\ caller = "print_image"
    /\ outcome = "running"
    /\ phase = "send"
    /\ written # <<>>
    /\ written[Len(written)].type = GET_PRINT_STATUS
    /\ resp # <<>>
    /\ result # <<>>

\* get_print_status has got a 10-byte reply whose idle byte is no flag
BadIdleByte ==
    /\ pc = "status"
    /\ phase = "ret"
    /\ resp # <<>>
    /\ Len(resp[1].data) = 10
    /\ resp[1].data[2] \notin {0, 1}

\* C12: on a 10-byte status payload whose idle byte is not 0 or 1,
\* get_print_status raises and returns no status, and print_image neither
\* takes the device for idle nor writes END_PRINT; on an idle byte 0 or 1 the
\* idle flag returned says whether the byte is 1.
C12_IdleByteChecked ==
    /\ (BadIdleByte /\ outcome # "running") =>
          /\ Raised("AssertionError", "get_print_status")
          /\ CountType(written, END_PRINT) = 0
    /\ Raised("AssertionError", "get_print_status") =>
          /\ BadIdleByte
          /\ CountType(written, END_PRINT) = 0
    /\ (caller = "print_image" /\ pc \in {"endprint", "done"}) =>
          /\ idleSeen
          /\ result # <<>>
          /\ result[1].idle = TRUE
    /\ CountType(written, END_PRINT) > 0 => idleSeen
    /\ StatusDecoded =>
          /\ resp[1].data[2] \in {0, 1}
          /\ result[1].idle = (resp[1].data[2] = 1)

\* print_image has ended on a status reply whose idle byte is 2
C12_Witness ==
    /\ caller = "print_image"
    /\ Raised("AssertionError", "get_print_status")
    /\ resp[1].data[2] = 2
    /\ CountType(written, GET_PRINT_STATUS) = 2

\* a command method called alone has sent its request
RequestSent == caller = "command" /\ written # <<>>

\* C13 as stated: for get_info(k) the response code waited for is k itself;
\* for every other command it is the request code plus 1 or 16.
C13_InfoCodeIsKey ==
    RequestSent =>
        IF written[1].type = GET_INFO
        THEN respcode = arg
        ELSE respcode - written[1].type \in {1, 16}

\* C13, amended: for get_info(k) the response code waited for is the GET_INFO
\* request code plus k, and a frame whose type is k is not taken for the
\* reply; for every other command it is the request code plus 1 or 16.
C13_InfoCodeIsOffset ==
    RequestSent =>
        IF written[1].type = GET_INFO
        THEN /\ written[1].data = <<arg>>
             /\ respcode = GET_INFO + arg
             /\ resp # <<>> => resp[1].type = GET_INFO + arg
        ELSE respcode - written[1].type \in {1, 16}

\* get_info(BATTERY) has returned the payload of a frame of type 74
C13_Witness ==
    /\ RequestSent
    /\ written[1].type = GET_INFO
    /\ arg = BATTERY
    /\ outcome = "returned"
    /\ resp # <<>>
    /\ resp[1].type = 74
    /\ result = <<[num |-> 3, den |-> 1]>>

\* bit i (0 the least significant) of byte b
Bit(b, i) == (b \div Pow(2, i)) % 2

\* _encode_image has yielded the packet of row y - 1
RowYielded == caller = "encode" /\ result # <<>>

\* C14: the packet of row r of an image of width w has type 0x85 and the
\* payload r (16 bits, big-endian), three zero bytes, the byte 1, then
\* ceil(w / 8) bytes in which pixel x is bit 7 - (x mod 8) of byte x div 8,
\* 1 for a black pixel, the padding bits 0.
C14_RowPacking ==
    RowYielded =>
        LET data == result[1].data
            r == y - 1
            w == image.width
            n == (w + 7) \div 8
        IN  /\ result[1].type = 133
            /\ Len(data) = 6 + n
            /\ (256 * data[1]) + data[2] = r
            /\ data[3] = 0 /\ data[4] = 0 /\ data[5] = 0
            /\ data[6] = 1
            /\ \A x \in 0..((8 * n) - 1) :
                  Bit(data[7 + (x \div 8)], 7 - (x % 8)) =
                      IF x < w /\ image.px[<<x, r>>] = 0 THEN 1 ELSE 0

\* C15: print_image with a density outside 1..5 fails before a byte is
\* written or read and leaves the receive buffer as it was; with a density in
\* 1..5 the first request is SET_LABEL_DENSITY with that value as its one
\* payload byte.
C15_DensityChecked ==
    caller = "print_image" =>
        /\ (density < 1 \/ density > 5) =>
              /\ Raised("AssertionError", "set_label_density")
              /\ written = <<>>
              /\ wire = <<>>
              /\ packetbuf = <<>>
              /\ attempt = 0
              /\ lastPass = <<>>
        /\ (density >= 1 /\ density <= 5 /\ written # <<>>) =>
              /\ written[1] = [type |-> 33, data |-> <<density>>]
              /\ \A i \in 2..Len(written) : written[i].type # 33

\* print_image(image, 6) has ended in set_label_density
C15_Witness ==
    /\ caller = "print_image"
    /\ density = 6
    /\ Raised("AssertionError", "set_label_density")
    /\ written = <<>>

\* positions in the latest pass of the frames that carry the response code
Matches == {i \in 1..Len(lastPass) : lastPass[i].type = respcode}

\* C16: when several frames with the expected response code are extracted
\* during one _transceive call, the frame returned is the last of them in
\* arrival order.
C16_LastReplyWins ==
    resp # <<>> =>
        \E i \in Matches :
            /\ \A j \in Matches : j <= i
            /\ resp[1] = lastPass[i]

\* start_print() has returned False on the second of two replies that
\* arrived in one pass, the first of which said True
C16_Witness ==
    /\ caller = "command"
    /\ outcome = "returned"
    /\ Len(lastPass) = 2
    /\ Matches = {1, 2}
    /\ lastPass[1].data = <<1>>
    /\ lastPass[2].data = <<0>>
    /\ resp = <<lastPass[2]>>
    /\ result = <<FALSE>>

\* positions of the row packets among the packets written
RowWrites == {i \in 1..Len(written) : written[i].type = 133}

\* the row index a row packet carries
RowIndex(packet) == (256 * packet.data[1]) + packet.data[2]

\* C17, the states: the row packets written are consecutive writes that
\* follow the SET_DIMENSION request, whose reply has been received; they
\* carry the indices 0, 1, 2, ... in order; there are at most h of them and
\* exactly h once END_PAGE_PRINT is written, right after the last row.
C17_States ==
    caller = "print_image" =>
        /\ Cardinality(RowWrites) = y
        /\ y <= image.height
        /\ RowWrites # {} =>
              \E first \in RowWrites :
                  /\ RowWrites = first..(first + y - 1)
                  /\ first > 1
                  /\ written[first - 1].type = SET_DIMENSION
                  /\ dimReply
                  /\ \A i \in RowWrites : RowIndex(written[i]) = i - first
        /\ \A i \in 1..Len(written) :
              written[i].type = END_PAGE_PRINT =>
                  /\ y = image.height
                  /\ i - 1 \in RowWrites
                  /\ RowIndex(written[i - 1]) = image.height - 1

\* C17, the steps: while print_image is at its row loop, a step writes one
\* row packet and reads nothing from the transport.
C17_Steps ==
    pc = "rows" =>
        /\ Len(written') = Len(written) + 1
        /\ written'[Len(written')].type = 133
        /\ packetbuf' = packetbuf
        /\ wire' = wire
        /\ attempt' = attempt

\* C17: for an image of height h, print_image writes exactly h row packets
\* between the SET_DIMENSION reply and the END_PAGE_PRINT request, with the
\* indices 0..h-1 in increasing order, and reads nothing from the transport
\* between the first and the last row write.
C17_RowsInOrder == []C17_States /\ [][C17_Steps]_vars

\* the two rows of an image of height 2 and END_PAGE_PRINT have been written
C17_Witness ==
    /\ caller = "print_image"
    /\ image.height = 2
    /\ y = 2
    /\ Cardinality(RowWrites) = 2
    /\ CountType(written, END_PAGE_PRINT) = 1

\* the bytes of the packets extracted so far, in extraction order
ExtractedBytes ==
    Flatten([i \in 1..Len(extractLog) |-> to_bytes(extractLog[i])])

\* C18, the states: the bytes of the frames extracted so far, followed by
\* the receive buffer, are the bytes read so far.
C18_States == traced => (ExtractedBytes \o packetbuf = readLog)

\* C18, the steps: a step that writes to the transport leaves the receive
\* buffer as it was; a step that reads adds to the two logs at their ends.
C18_Steps ==
    /\ written' # written => packetbuf' = packetbuf
    /\ Len(readLog') >= Len(readLog)
    /\ SubSeq(readLog', 1, Len(readLog)) = readLog
    /\ Len(extractLog') >= Len(extractLog)
    /\ SubSeq(extractLog', 1, Len(extractLog)) = extractLog

\* C18: in every reachable state the bytes of all frames extracted so far,
\* in extraction order, followed by the receive buffer equal the bytes read
\* so far: a read appends at the end of the buffer, an extraction removes
\* the frame's buffer[3] + 7 bytes from its front, and a send leaves it alone.
C18_BytesConserved == []C18_States /\ [][C18_Steps]_vars

\* two frames have been extracted and the first bytes of a third are in the
\* buffer
C18_Witness ==
    /\ traced
    /\ Len(extractLog) = 2
    /\ Len(packetbuf) = 3
    /\ Len(readLog) = 19
    /\ outcome = "returned"

\* every command method with every argument that bears on its codes
AllCalls ==
    {<<"getinfo", k>> : k \in InfoEnum}
    \cup {<<c, 1>> : c \in ClientSteps \ {"getinfo"}}

\* the request code of a call
CallReqCode(call) ==
    ClientRequest(call[1], 1, [height |-> 1, width |-> 1], call[2]).reqcode

\* the call is not the one in progress
OtherCall(call) ==
    \/ CallReqCode(call) # written[1].type
    \/ (call[1] = "getinfo" /\ call[2] # arg)

\* C19: the response code each command waits for (get_info with each
\* InfoEnum key included) lies in 1..255, is neither 219 nor 0, is no
\* request code, and is the response code of no other command or info key.
C19_CodesDistinct ==
    RequestSent =>
        /\ respcode \in 1..255
        /\ respcode # 219
        /\ respcode # 0
        /\ respcode \notin RequestCodeEnum
        /\ \A call \in AllCalls :
              OtherCall(call) => ClientRespCode(call[1], call[2]) # respcode

\* heartbeat() has returned on a frame of type 221
C19_Witness ==
    /\ RequestSent
    /\ written[1].type = HEARTBEAT
    /\ respcode = 221
    /\ outcome = "returned"
    /\ result # <<>>
    /\ result[1].closingstate = 9

\* C20, in a form a finite run refutes: with a device that answers every
\* request with a frame of the expected code within the six passes, reports
\* idle and accepts END_PRINT sooner or later, print_image is on its way or
\* has returned, however the transport cuts the reply bytes into reads.
C20_SessionNeverStuck ==
    caller = "print_image" => outcome \in {"running", "returned"}

====
